---- MODULE Spec2Model ----
(***************************************************************************)
(* Model of spectro_coherence/cindex.py: the sliding-window C-Index scan   *)
(* (calculate_c_index), its summary (c_index_statistics), the anomaly      *)
(* detector (detect_anomalies) and the quality classifier                  *)
(* (coherence_quality_score), driven the way the tests and                 *)
(* examples/winered_analysis.py drive them.                                *)
(*                                                                         *)
(* Numbers.  A float is modelled as a record [a, b, r, d] that denotes     *)
(* (a + b*sqrt(r)) / d with integer a, b, r >= 0 and d > 0.  d = 0 marks a *)
(* non-finite float: NaN (a = 0), +inf (a = 1), -inf (a = -1).  Every      *)
(* comparison the code makes is decided exactly.  The values of a series   *)
(* and its mean, standard deviation and threshold are floats of a narrowed *)
(* format (Precision significand bits), and each numpy operation on them   *)
(* rounds to nearest, ties to even.  The three window components are       *)
(* irrational in general;                                                  *)
(* they are computed from exact integer sums, with one integer square      *)
(* root, and rounded down to 1/Resolution.  Floating-point overflow is     *)
(* kept: a sum, difference or square whose magnitude exceeds FloatMax is   *)
(* infinite, and inf/inf is NaN, as IEEE-754 arithmetic has it (the        *)
(* exponent range is narrowed, the rules are not).                          *)
(***************************************************************************)
EXTENDS Integers, Sequences, FiniteSets

\* ------------------------------------------------------------------ bounds

\* Longest flux array loaded.
MaxLen == 13

\* Largest step handed to calculate_c_index.
MaxStep == 2

\* Longest run of non-finite entries planted in a flux array.
MaxBad == 3

\* Largest finite magnitude of the narrowed float format (data units).
FloatMax == 500

\* A flux value whose square overflows while sums of a window do not.
Big == 30

\* A flux value for which the sum or difference of two overflows.
Huge == 300

\* Window components are rounded down to multiples of 1/Resolution.
Resolution == 100

\* Square roots are taken to 1/RootScale.
RootScale == 100

\* Significand bits of the narrowed float format (float64 has 53).
Precision == 13

\* ------------------------------------------------- program constants

\* cindex.py:77  if len(segment) < 10: continue
MinFinite == 10

\* ------------------------------------------------------------------ reals

Abs(x) == IF x < 0 THEN -x ELSE x

Min(x, y) == IF x < y THEN x ELSE y

Max(x, y) == IF x < y THEN y ELSE x

RECURSIVE GCD(_, _)
GCD(x, y) == IF y = 0 THEN Abs(x) ELSE GCD(Abs(y), Abs(x) % Abs(y))

\* The float (a + b*sqrt(r)) / d, in lowest terms, with d > 0.
Quad(a, b, r, d) ==
    LET bb == IF r = 0 THEN 0 ELSE b
        rr == IF bb = 0 THEN 0 ELSE r
        g  == GCD(GCD(a, bb), d)
        s  == IF d < 0 THEN -1 ELSE 1
    IN  [a |-> s * (a \div g), b |-> s * (bb \div g), r |-> rr, d |-> s * (d \div g)]

Rat(n, d) == Quad(n, 0, 0, d)

Int2Real(n) == [a |-> n, b |-> 0, r |-> 0, d |-> 1]

NaN == [a |-> 0, b |-> 0, r |-> 0, d |-> 0]

PInf == [a |-> 1, b |-> 0, r |-> 0, d |-> 0]

NInf == [a |-> -1, b |-> 0, r |-> 0, d |-> 0]

\* np.isfinite / math.isfinite
IsFinite(x) == x.d # 0

IsNaN(x) == x.d = 0 /\ x.a = 0

\* The sign of A + B*sqrt(r) is positive.
Positive(A, B, r) ==
    IF B = 0 \/ r = 0 THEN A > 0
    ELSE IF B > 0 THEN A >= 0 \/ B * B * r > A * A
    ELSE A > 0 /\ A * A > B * B * r

\* x < y as IEEE-754 decides it: FALSE when either side is NaN.  At most
\* one radical occurs among x and y (a series has one standard deviation).
Lt(x, y) ==
    IF IsNaN(x) \/ IsNaN(y) THEN FALSE
    ELSE IF ~IsFinite(x) THEN x.a < 0 /\ (IsFinite(y) \/ y.a > 0)
    ELSE IF ~IsFinite(y) THEN y.a > 0
    ELSE LET g == GCD(x.d, y.d)
             A == y.a * (x.d \div g) - x.a * (y.d \div g)
             B == y.b * (x.d \div g) - x.b * (y.d \div g)
         IN  Positive(A, B, IF y.b # 0 THEN y.r ELSE x.r)

Gt(x, y) == Lt(y, x)

\* x = y as floats: NaN equals nothing.
Eq(x, y) == ~IsNaN(x) /\ ~IsNaN(y) /\ ~Lt(x, y) /\ ~Lt(y, x)

Le(x, y) == Lt(x, y) \/ Eq(x, y)

\* x - y exactly (no rounding), for finite x and y.
Sub(x, y) ==
    IF ~IsFinite(x) \/ ~IsFinite(y) THEN NaN
    ELSE LET g == GCD(x.d, y.d)
         IN  Quad(x.a * (y.d \div g) - y.a * (x.d \div g),
                  x.b * (y.d \div g) - y.b * (x.d \div g),
                  IF y.b # 0 THEN y.r ELSE x.r,
                  (x.d \div g) * y.d)

\* q * x for a rational q.
MulRat(q, x) ==
    IF ~IsFinite(q) \/ ~IsFinite(x) THEN NaN
    ELSE Quad(q.a * x.a, q.a * x.b, x.r, q.d * x.d)

\* ---------------------------------------------------- Python sequences

\* A Python index k of a slice bound, clamped into 0..n.
SliceBound(k, n) == IF k < 0 THEN Max(k + n, 0) ELSE Min(k, n)

\* data[lo:hi] (0-based, negative bounds count from the end).
Slice(data, lo, hi) ==
    LET n == Len(data)
        l == SliceBound(lo, n)
        h == SliceBound(hi, n)
    IN  IF h <= l THEN <<>> ELSE [k \in 1..(h - l) |-> data[l + k]]

\* len(range(start, stop, step)) for step # 0.
RangeLen(start, stop, step) ==
    IF step > 0
    THEN (IF stop > start THEN (stop - start + step - 1) \div step ELSE 0)
    ELSE (IF start > stop THEN (start - stop - step - 1) \div (-step) ELSE 0)

\* list(range(start, stop, step)) for step # 0.
PyRange(start, stop, step) ==
    [k \in 1..RangeLen(start, stop, step) |-> start + (k - 1) * step]

\* The segment left unfiltered.
KeepAll(seg) == seg

\* segment[np.isfinite(segment)]: the finite entries, in order.
RECURSIVE FiniteOnly(_)
FiniteOnly(seg) ==
    IF seg = <<>> THEN <<>>
    ELSE IF IsFinite(Head(seg)) THEN <<Head(seg)>> \o FiniteOnly(Tail(seg))
    ELSE FiniteOnly(Tail(seg))

\* np.sum(np.isfinite(segment))
FiniteCount(seg) == Cardinality({k \in 1..Len(seg) : IsFinite(seg[k])})

\* The integer values of a finite segment.
Values(seg) == [k \in 1..Len(seg) |-> seg[k].a]

RECURSIVE SumTo(_, _)
SumTo(x, k) == IF k = 0 THEN 0 ELSE SumTo(x, k - 1) + x[k]

Sum(x) == SumTo(x, Len(x))

SumSq(x) == Sum([k \in 1..Len(x) |-> x[k] * x[k]])

\* Len(x)^2 times the population variance of x: an integer.
VarN(x) == Len(x) * SumSq(x) - Sum(x) * Sum(x)

RECURSIVE ISqrtIn(_, _, _)
ISqrtIn(n, lo, hi) ==
    IF lo >= hi THEN lo
    ELSE LET mid == (lo + hi + 1) \div 2
         IN  IF mid * mid <= n THEN ISqrtIn(n, mid, hi) ELSE ISqrtIn(n, lo, mid - 1)

\* floor(sqrt(n)) for 0 <= n < 2^30.
ISqrt(n) == ISqrtIn(n, 0, Min(n, 32767))

\* floor(RootScale * sqrt(v)).
Root(v) == ISqrt(v * RootScale * RootScale)

\* ------------------------------------------------- float arithmetic
\*
\* The values of a series (C-Index values, their mean, standard deviation,
\* threshold, cv) are floats: dyadic rationals with a significand of
\* Precision bits.  Every numpy operation on them returns the float nearest
\* the exact result, ties to even, as IEEE-754 arithmetic does; results
\* below 2^Emin in magnitude lose precision gradually (subnormals).

Pow2(k) == IF k <= 0 THEN 1 ELSE 2 ^ k

\* Number of bits of n >= 0: the b with 2^(b-1) <= n < 2^b.
BitLen(n) == CHOOSE b \in 0..30 : n < 2 ^ b /\ (b = 0 \/ 2 ^ (b - 1) <= n)

\* Exponent of the smallest positive float, 2^Emin.
Emin == -(2 * Precision + 2)

\* m * 2^e as a rational in lowest terms.
Dyadic(m, e) == IF e >= 0 THEN Rat(m * Pow2(e), 1) ELSE Rat(m, Pow2(-e))

\* The exponent e of a finite dyadic x = x.a * 2^e.
Exp(x) == 1 - BitLen(x.d)

\* The float nearest s * M * 2^e for M >= 0 (round to nearest, ties to even).
FRound(s, M, e) ==
    LET k == Max(BitLen(M) - Precision, Emin - e)      \* bits dropped
    IN  IF M = 0 \/ k > BitLen(M) THEN Int2Real(0)
        ELSE IF k <= 0 THEN Dyadic(s * M, e)
        ELSE LET q    == M \div Pow2(k)
                 r    == M % Pow2(k)
                 half == Pow2(k - 1)
                 up   == r > half \/ (r = half /\ q % 2 = 1)
             IN  Dyadic(s * (IF up THEN q + 1 ELSE q), e + k)

\* Python evaluates the operands of an operation once, before the operation
\* is applied: Op(x) and Op(x, y) with x and y bound to their values.
CallWith(Op(_), x) == CHOOSE v \in {Op(u) : u \in {x}} : TRUE

CallWith2(Op(_, _), x, y) == CHOOSE v \in {Op(u, w) : u \in {x}, w \in {y}} : TRUE

CallWith3(Op(_, _, _), x, y, z) ==
    CHOOSE v \in {Op(u, w, t) : u \in {x}, w \in {y}, t \in {z}} : TRUE

\* The sum of two values, rounded.  An operand below a quarter ulp of the
\* other does not change it.
RoundedSum(x, y) ==
    IF ~IsFinite(x) \/ ~IsFinite(y) THEN NaN
    ELSE IF x.a = 0 THEN y
    ELSE IF y.a = 0 THEN x
    ELSE LET tx == Exp(x) + BitLen(Abs(x.a))
             ty == Exp(y) + BitLen(Abs(y.a))
             e  == Min(Exp(x), Exp(y))
         IN  IF tx >= ty + Precision + 2 THEN x
             ELSE IF ty >= tx + Precision + 2 THEN y
             ELSE LET S == x.a * Pow2(Exp(x) - e) + y.a * Pow2(Exp(y) - e)
                  IN  FRound(IF S < 0 THEN -1 ELSE 1, Abs(S), e)

FNeg(x) == IF IsFinite(x) THEN [x EXCEPT !.a = -x.a] ELSE x

\* The product of two values, rounded.
RoundedProduct(x, y) ==
    IF ~IsFinite(x) \/ ~IsFinite(y) THEN NaN
    ELSE FRound(IF (x.a < 0) = (y.a < 0) THEN 1 ELSE -1,
                Abs(x.a) * Abs(y.a), Exp(x) + Exp(y))

\* The quotient of two values, rounded.  numpy gives 0/0 = NaN and
\* x/0 = +-inf (a warning, no exception).
RoundedQuotient(x, y) ==
    IF ~IsFinite(x) \/ ~IsFinite(y) THEN NaN
    ELSE IF y.a = 0 THEN (IF x.a = 0 THEN NaN ELSE IF x.a > 0 THEN PInf ELSE NInf)
    ELSE IF x.a = 0 THEN Int2Real(0)
    ELSE LET k == 2 * Precision + 1 - BitLen(Abs(x.a))
             N == Abs(x.a) * Pow2(k)
             Q == N \div Abs(y.a)
             R == N % Abs(y.a)
         IN  FRound(IF (x.a < 0) = (y.a < 0) THEN 1 ELSE -1,
                    2 * Q + (IF R = 0 THEN 0 ELSE 1),
                    Exp(x) - Exp(y) - k - 1)

\* The square root of a value, rounded: NaN for x < 0.
RoundedRoot(x) ==
    IF ~IsFinite(x) \/ x.a < 0 THEN NaN
    ELSE IF x.a = 0 THEN x
    ELSE LET j0 == 2 * Precision + 1 - BitLen(x.a)
             j  == IF (Exp(x) - j0) % 2 = 0 THEN j0 ELSE j0 + 1
             N  == x.a * Pow2(j)
             R  == ISqrt(N)
         IN  FRound(1, 2 * R + (IF R * R = N THEN 0 ELSE 1), (Exp(x) - j) \div 2 - 1)

\* x + y
FAdd(x, y) == CallWith2(RoundedSum, x, y)

\* x - y
FSub(x, y) == FAdd(x, FNeg(y))

\* x * y
FMul(x, y) == CallWith2(RoundedProduct, x, y)

\* x / y
FDiv(x, y) == CallWith2(RoundedQuotient, x, y)

\* np.sqrt(x)
FSqrt(x) == CallWith(RoundedRoot, x)

\* The float a decimal literal n/d denotes (0.85 is Literal(85, 100)).
Literal(n, d) == FDiv(Int2Real(n), Int2Real(d))

\* ------------------------------------------------- window statistics

\* np.abs(np.diff(segment)), as integers.
Gradient(x) == [k \in 1..(Len(x) - 1) |-> Abs(x[k + 1] - x[k])]

\* np.mean(gradient) is +inf: a difference or their sum overflows.
GradientOverflow(x) ==
    \/ \E k \in 1..(Len(x) - 1) : Abs(x[k + 1] - x[k]) > FloatMax
    \/ Sum(Gradient(x)) > FloatMax

\* np.mean(segment) is infinite: a partial sum overflows.
MeanOverflow(x) == \E k \in 1..Len(x) : Abs(SumTo(x, k)) > FloatMax

\* np.std(segment) is +inf: the mean is infinite, or the squared
\* deviations (their sum is VarN / Len) overflow.
StdOverflow(x) == MeanOverflow(x) \/ VarN(x) > Len(x) * FloatMax

Unit(u) == [a |-> u, b |-> 0, r |-> 0, d |-> Resolution]

\* cindex.py:81-82.  smoothness = 1 / (1 + mean(gradient) / (std + 1e-10)).
\* With m = Len(x): mean(gradient) = G / (m - 1), std = sqrt(VarN) / m.
Smoothness(x) ==
    LET m == Len(x)
        G == Sum(Gradient(x))
        R == Root(VarN(x))
    IN  IF GradientOverflow(x) /\ StdOverflow(x) THEN NaN      \* inf / inf
        ELSE IF GradientOverflow(x) THEN Unit(0)                \* 1 / (1 + inf)
        ELSE IF StdOverflow(x) THEN Unit(Resolution)            \* 1 / (1 + 0)
        ELSE IF G = 0 THEN Unit(Resolution)                     \* 0 / (std + 1e-10)
        ELSE IF VarN(x) = 0 THEN Unit(0)                        \* G / 1e-10
        ELSE Unit((Resolution * (m - 1) * R)
                  \div ((m - 1) * R + G * m * RootScale))

\* cindex.py:85-90.  stability = 1 / (1 + std / |mean|) if |mean| > 1e-10
\* else 0.5.  The values are integers, so |mean| > 1e-10 iff the sum # 0.
Stability(x) ==
    LET S == Abs(Sum(x))
        R == Root(VarN(x))
    IN  IF MeanOverflow(x) THEN NaN                             \* inf / inf
        ELSE IF S = 0 THEN Rat(1, 2)
        ELSE IF StdOverflow(x) THEN Unit(0)                     \* 1 / (1 + inf)
        ELSE Unit((Resolution * S * RootScale) \div (S * RootScale + R))

\* np.corrcoef(a, b)[0, 1] in units of 1/Resolution, clipped to [-1, 1] as
\* numpy clips it; a and b have the same length L and nonzero variance.
CorrUnits(a, b) ==
    LET L   == Len(a)
        Cab == L * Sum([k \in 1..L |-> a[k] * b[k]]) - Sum(a) * Sum(b)
        q   == (((Resolution * RootScale * Abs(Cab)) \div Root(VarN(a)))
                * RootScale) \div Root(VarN(b))
        c   == Min(q, Resolution)
    IN  IF Cab < 0 THEN -c ELSE c

\* Consistency without the np.isfinite guard: a NaN autocorrelation is kept.
ConsistencyUnguarded(x) ==
    LET a == SubSeq(x, 1, Len(x) - 1)
        b == SubSeq(x, 2, Len(x))
    IN  IF Len(x) <= 1 THEN Rat(1, 2)
        ELSE IF StdOverflow(a) \/ StdOverflow(b) THEN NaN
        ELSE IF VarN(a) = 0 \/ VarN(b) = 0 THEN NaN
        ELSE Quad(CorrUnits(a, b) + Resolution, 0, 0, 2 * Resolution)

\* cindex.py:93-97.  consistency = (autocorr + 1) / 2 if autocorr is finite
\* else 0.5; autocorr is NaN when a variance is zero (0/0) or overflows.
Consistency(x) ==
    LET a == SubSeq(x, 1, Len(x) - 1)
        b == SubSeq(x, 2, Len(x))
    IN  IF Len(x) <= 1 THEN Rat(1, 2)
        ELSE IF StdOverflow(a) \/ StdOverflow(b) THEN Rat(1, 2)
        ELSE IF VarN(a) = 0 \/ VarN(b) = 0 THEN Rat(1, 2)
        ELSE Quad(CorrUnits(a, b) + Resolution, 0, 0, 2 * Resolution)

\* A component in units of 1/(2*Resolution).
HalfUnits(c) == c.a * ((2 * Resolution) \div c.d)

\* cindex.py:100.  c_index = (smoothness + stability + consistency) / 3.0:
\* the float nearest a third of the sum.
CIndex(x) ==
    LET smoothness  == Smoothness(x)
        stability   == Stability(x)
        consistency == Consistency(x)
    IN  IF IsNaN(smoothness) \/ IsNaN(stability) \/ IsNaN(consistency)
        THEN NaN
        ELSE FDiv(Int2Real(HalfUnits(smoothness) + HalfUnits(stability)
                             + HalfUnits(consistency)),
                  Int2Real(6 * Resolution))

\* ------------------------------------------------- calculate_c_index

\* cindex.py:71.  np.sum(np.isfinite(segment)) < window * min_valid_fraction
TooFewValid(segment, window, min_valid_fraction) ==
    Lt(Int2Real(FiniteCount(segment)), MulRat(Int2Real(window), min_valid_fraction))

\* The 10-sample floor applied to the unfiltered slice.
TooShortUnfiltered(segment) == Len(segment) < MinFinite

\* cindex.py:77.  len(segment) < 10, segment filtered to its finite entries.
TooShort(segment) == Len(FiniteOnly(segment)) < MinFinite

\* The midpoint with floor division: i + window // 2.
PositionFloored(i, window) == Int2Real(i + window \div 2)

\* cindex.py:103.  i + window / 2 (true division: a float).
Position(i, window) == Rat(2 * i + window, 2)

\* cindex.py:67.  range(0, n - window, step)
Offsets(n, window, step) == PyRange(0, n - window, step)

\* cindex.py:67-103.  The loop body, for the offsets left to visit.
RECURSIVE ScanLoop(_, _, _, _, _)
ScanLoop(data, window, min_valid_fraction, offs, acc) ==
    IF offs = <<>> THEN acc
    ELSE LET i       == Head(offs)
             segment == Slice(data, i, i + window)
         IN  IF TooFewValid(segment, window, min_valid_fraction)
             THEN ScanLoop(data, window, min_valid_fraction, Tail(offs), acc)
             ELSE IF TooShort(segment)
             THEN ScanLoop(data, window, min_valid_fraction, Tail(offs), acc)
             ELSE ScanLoop(data, window, min_valid_fraction, Tail(offs),
                      [positions |-> Append(acc.positions, Position(i, window)),
                       c_indices |-> Append(acc.c_indices,
                                            CIndex(Values(FiniteOnly(segment))))])

\* range(0, n - window, 0)
RangeStepError == "ValueError: range() arg 3 must not be zero"

\* cindex.py:63-105.  range() raises ValueError when step is 0.
calculate_c_index(data, window, step, min_valid_fraction) ==
    IF step = 0
    THEN [raised |-> RangeStepError, positions |-> <<>>, c_indices |-> <<>>]
    ELSE LET out == ScanLoop(data, window, min_valid_fraction,
                             Offsets(Len(data), window, step),
                             [positions |-> <<>>, c_indices |-> <<>>])
         IN  [raised |-> "none", positions |-> out.positions,
              c_indices |-> out.c_indices]

\* ------------------------------------------------- series statistics

HasNaN(c) == \E k \in 1..Len(c) : ~IsFinite(c[k])

\* x[1] + ... + x[k], added one by one from the left.
RECURSIVE AddTo(_, _)
AddTo(x, k) == IF k = 0 THEN Int2Real(0) ELSE FAdd(AddTo(x, k - 1), x[k])

\* np.add.reduce of a float array: fewer than 8 entries are added one by
\* one; from 8 entries on numpy adds the first eight pairwise,
\* ((x1+x2)+(x3+x4)) + ((x5+x6)+(x7+x8)), and then the rest one by one.
NpSum(x) ==
    IF Len(x) < 8 THEN AddTo(x, Len(x))
    ELSE LET eight == FAdd(FAdd(FAdd(x[1], x[2]), FAdd(x[3], x[4])),
                           FAdd(FAdd(x[5], x[6]), FAdd(x[7], x[8])))
         IN  AddTo(<<eight>> \o SubSeq(x, 9, Len(x)), Len(x) - 7)

\* np.mean: NaN for an empty array (a warning, no exception) or a NaN entry.
NpMean(c) ==
    IF Len(c) = 0 \/ HasNaN(c) THEN NaN
    ELSE FDiv(NpSum(c), Int2Real(Len(c)))

\* sqrt(mean((c - arrmean)**2))
StdAbout(c, arrmean) ==
    LET dev == [k \in 1..Len(c) |-> FSub(c[k], arrmean)]
        sq  == [k \in 1..Len(c) |-> FMul(dev[k], dev[k])]
    IN  FSqrt(FDiv(NpSum(sq), Int2Real(Len(c))))

\* np.std (population, ddof = 0): sqrt(mean((c - mean(c))**2)).
NpStd(c) ==
    IF Len(c) = 0 \/ HasNaN(c) THEN NaN
    ELSE CallWith2(StdAbout, c, NpMean(c))

\* np.min of a non-empty array: NaN if any entry is NaN.
NpMin(c) ==
    IF HasNaN(c) THEN NaN
    ELSE CHOOSE v \in {c[k] : k \in 1..Len(c)} : \A k \in 1..Len(c) : ~Lt(c[k], v)

\* np.max of a non-empty array: NaN if any entry is NaN.
NpMax(c) ==
    IF HasNaN(c) THEN NaN
    ELSE CHOOSE v \in {c[k] : k \in 1..Len(c)} : \A k \in 1..Len(c) : ~Lt(v, c[k])

\* np.min([])
ZeroSizeError ==
    "ValueError: zero-size array to reduction operation minimum which has no identity"

NoStats ==
    [mean |-> NaN, std |-> NaN, min |-> NaN, max |-> NaN, cv |-> NaN,
     anomaly_threshold |-> NaN, n_values |-> -1]

\* cv with the guard of the window stability: std/mean whenever |mean| > 0.
CvAbsGuard(std, mean) ==
    IF Gt(mean, Int2Real(0)) \/ Lt(mean, Int2Real(0)) THEN FDiv(std, mean)
    ELSE Int2Real(0)

\* cindex.py:134.  std / mean if mean > 0 else 0
CoefficientOfVariation(std, mean) ==
    IF Gt(mean, Int2Real(0)) THEN FDiv(std, mean) ELSE Int2Real(0)

\* cindex.py:129-137.  The dict is built in order: np.mean and np.std of an
\* empty array give NaN, then np.min raises ValueError (a zero-size array
\* has no minimum), so no dict is returned.
c_index_statistics(c) ==
    IF Len(c) = 0
    THEN [raised |-> ZeroSizeError, stats |-> NoStats]
    ELSE [raised |-> "none",
          stats  |-> [mean |-> NpMean(c),
                      std  |-> NpStd(c),
                      min  |-> NpMin(c),
                      max  |-> NpMax(c),
                      cv   |-> CallWith2(CoefficientOfVariation, NpStd(c), NpMean(c)),
                      anomaly_threshold |-> FSub(NpMean(c), FMul(Int2Real(2), NpStd(c))),
                      n_values |-> Len(c)]]

\* ------------------------------------------------- detect_anomalies

\* The threshold one standard deviation below the mean, whatever
\* threshold_sigma is.
ThresholdOneSigma(c, threshold_sigma) == FSub(NpMean(c), NpStd(c))

\* The threshold above the mean: mean + threshold_sigma * std.
ThresholdAbove(c, threshold_sigma) == FAdd(NpMean(c), FMul(threshold_sigma, NpStd(c)))

\* cindex.py:164.  threshold = mean - threshold_sigma * std
Threshold(c, threshold_sigma) == FSub(NpMean(c), FMul(threshold_sigma, NpStd(c)))

\* The mask with <= in place of <.
BelowOrEqual(v, threshold) == Le(v, threshold)

\* cindex.py:165.  One entry of c_indices < threshold.
BelowThreshold(v, threshold) == Lt(v, threshold)

\* arr[mask]: the entries of arr where the mask is TRUE, in order.
RECURSIVE MaskSelect(_, _)
MaskSelect(arr, mask) ==
    IF arr = <<>> THEN <<>>
    ELSE IF Head(mask) THEN <<Head(arr)>> \o MaskSelect(Tail(arr), Tail(mask))
    ELSE MaskSelect(Tail(arr), Tail(mask))

\* cindex.py:165-167.  The samples of c below the threshold.
Flagged(pos, c, threshold) ==
    LET anomaly_mask == [k \in 1..Len(c) |-> BelowThreshold(c[k], threshold)]
    IN  [anomaly_positions |-> MaskSelect(pos, anomaly_mask),
         anomaly_values    |-> MaskSelect(c, anomaly_mask)]

\* cindex.py:164-167.
detect_anomalies(pos, c, threshold_sigma) ==
    CallWith3(Flagged, pos, c, Threshold(c, threshold_sigma))

\* ------------------------------------------------- coherence_quality_score

\* The rules with >= on the mean.
ScoreNonStrict(m, v) ==
    IF Le(Literal(85, 100), m) /\ Lt(v, Literal(5, 100)) THEN "Excellent"
    ELSE IF Le(Literal(80, 100), m) /\ Lt(v, Literal(10, 100)) THEN "Good"
    ELSE IF Le(Literal(70, 100), m) /\ Lt(v, Literal(15, 100)) THEN "Fair"
    ELSE "Poor"

\* The rules as disjoint bands of cv: Good only for 0.05 <= cv < 0.10, Fair
\* only for 0.10 <= cv < 0.15.
ScoreBanded(m, v) ==
    IF Gt(m, Literal(85, 100)) /\ Lt(v, Literal(5, 100)) THEN "Excellent"
    ELSE IF Gt(m, Literal(80, 100)) /\ Lt(v, Literal(10, 100))
            /\ ~Lt(v, Literal(5, 100)) THEN "Good"
    ELSE IF Gt(m, Literal(70, 100)) /\ Lt(v, Literal(15, 100))
            /\ ~Lt(v, Literal(10, 100)) THEN "Fair"
    ELSE "Poor"

\* cindex.py:194-201.
coherence_quality_score(m, v) ==
    IF Gt(m, Literal(85, 100)) /\ Lt(v, Literal(5, 100)) THEN "Excellent"
    ELSE IF Gt(m, Literal(80, 100)) /\ Lt(v, Literal(10, 100)) THEN "Good"
    ELSE IF Gt(m, Literal(70, 100)) /\ Lt(v, Literal(15, 100)) THEN "Fair"
    ELSE "Poor"

\* ------------------------------------------------------------------ inputs

ConstFlux(n, a) == [k \in 1..n |-> Int2Real(a)]

AltFlux(n, a, b) == [k \in 1..n |-> Int2Real(IF k % 2 = 1 THEN a ELSE b)]

\* The j-th entry of a run of missing data: NaN, +inf, -inf, NaN, ...
BadEntry(j) == IF j % 3 = 1 THEN NaN ELSE IF j % 3 = 2 THEN PInf ELSE NInf

\* f with q non-finite entries planted from index p on.
WithBad(f, p, q) ==
    [k \in 1..Len(f) |-> IF p <= k /\ k < p + q THEN BadEntry(k - p + 1) ELSE f[k]]

Lengths == (MinFinite - 1)..MaxLen

ConstValues == {-1, 0, 1, Big, Huge}

AltPairs == {<<1, -1>>, <<0, 1>>, <<1, 2>>, <<-1, 2>>, <<Big, 0>>, <<Huge, -Huge>>}

CleanFlux(n) ==
    {ConstFlux(n, a) : a \in ConstValues} \cup {AltFlux(n, p[1], p[2]) : p \in AltPairs}

\* The flux arrays a loader hands over: constant and alternating spectra,
\* clean, with a short run of missing data, or all missing.
FluxOfLength(n) ==
    {WithBad(f, p, q) : f \in CleanFlux(n), p \in {1, 3}, q \in (0..MaxBad) \cup {n + 2}}

FluxSet == UNION {FluxOfLength(n) : n \in Lengths}

Windows == {-1, 0} \cup ((MinFinite - 1)..(MaxLen + 1))

Steps == (-1)..MaxStep

Fractions == {Rat(0, 1), Rat(8, 10), Rat(1, 1)}

Sigmas == {Rat(0, 1), Rat(1, 1), Rat(3, 2), Rat(2, 1), Rat(3, 1)}

\* Longest series handed directly to the series functions.
MaxSeries == 3

SeriesValues == {Literal(60, 100), Literal(85, 100), Literal(88, 100), Literal(90, 100)}

RECURSIVE SeqsUpTo(_, _)
SeqsUpTo(S, n) ==
    IF n = 0 THEN {<<>>}
    ELSE LET T == SeqsUpTo(S, n - 1)
         IN  T \cup {Append(t, v) : t \in {u \in T : Len(u) = n - 1}, v \in S}

\* tests/test_cindex.py:82
TestAnomalySeries == <<Literal(85, 100), Literal(87, 100), Literal(60, 100), Literal(86, 100), Literal(88, 100)>>

\* tests/test_cindex.py:63
TestStatsSeries == <<Literal(85, 100), Literal(87, 100), Literal(89, 100), Literal(86, 100), Literal(88, 100)>>

\* n samples of the same value p/100.
ConstSeries(n, p) == [k \in 1..n |-> Literal(p, 100)]

\* The series handed to the series functions: every short series over
\* SeriesValues, the two of the tests, one with a NaN sample, constant
\* series, and series whose mean is negative or zero.
SeriesSet ==
    SeqsUpTo(SeriesValues, MaxSeries)
    \cup {TestAnomalySeries, TestStatsSeries,
          <<Literal(85, 100), NaN, Literal(60, 100)>>,
          ConstSeries(3, 10), ConstSeries(3, 70), ConstSeries(5, 88),
          <<Literal(-85, 100), Literal(60, 100)>>,
          <<Literal(-60, 100), Literal(60, 100)>>,
          <<Literal(50, 100), Literal(90, 100), Literal(90, 100), Literal(90, 100), Literal(90, 100),
            Literal(90, 100), Literal(90, 100), Literal(90, 100)>>}

\* tests/test_cindex.py:81.  positions 10, 20, 30, ...
TestPositions(n) == [k \in 1..n |-> Int2Real(10 * k)]

ScoreMeans == {Literal(k, 100) : k \in {-50, 65, 70, 71, 75, 80, 81, 85, 86, 90}} \cup {NaN}

ScoreCvs == {Literal(k, 100) : k \in {-1, 0, 3, 5, 7, 10, 12, 15, 20}} \cup {NaN}

\* ------------------------------------------------------------------ state

VARIABLES
    pc,                  \* where the caller stands
    flux,                \* the loaded spectrum's flux array
    window,              \* arguments of calculate_c_index
    step,
    min_valid_fraction,
    positions,           \* its result, or the series a caller supplies
    c_indices,
    stats,               \* result of c_index_statistics
    threshold_sigma,     \* argument of detect_anomalies
    anomaly_positions,   \* its result
    anomaly_values,
    mean_c,              \* arguments of coherence_quality_score
    cv,
    quality,             \* its result
    raised,              \* the exception that ended the run, or "none"
    spectra,             \* the flux arrays of a batch, as they are in memory
    given,               \* the same arrays as the loader handed them over
    calls                \* per caller of a batch: its locals

\* The variables of a batch.
batchVars == <<spectra, given, calls>>

\* The variables of the analysis of a single spectrum.
singleVars == <<pc, flux, window, step, min_valid_fraction, positions, c_indices,
                stats, threshold_sigma, anomaly_positions, anomaly_values, mean_c,
                cv, quality, raised>>

vars == <<singleVars, batchVars>>

\* The callers that work on a batch side by side.
Callers == {"a", "b"}

\* The locals of a caller that has not called anything yet.
NoCall ==
    [pc |-> "idle", k |-> 0, window |-> 0, step |-> 0, min_valid_fraction |-> NaN,
     positions |-> <<>>, c_indices |-> <<>>, stats |-> NoStats,
     anomaly_positions |-> <<>>, anomaly_values |-> <<>>, quality |-> "none",
     raised |-> "none"]

Init ==
    /\ pc = "start"
    /\ flux = <<>>
    /\ window = 0
    /\ step = 0
    /\ min_valid_fraction = NaN
    /\ positions = <<>>
    /\ c_indices = <<>>
    /\ stats = NoStats
    /\ threshold_sigma = NaN
    /\ anomaly_positions = <<>>
    /\ anomaly_values = <<>>
    /\ mean_c = NaN
    /\ cv = NaN
    /\ quality = "none"
    /\ raised = "none"
    /\ spectra = <<>>
    /\ given = <<>>
    /\ calls = [c \in Callers |-> NoCall]

\* winered_analysis.py:36.  The loader hands over a spectrum.
LoadSpectrum ==
    /\ pc = "start"
    /\ \E f \in FluxSet : flux' = f
    /\ pc' = "loaded"
    /\ UNCHANGED <<window, step, min_valid_fraction, positions, c_indices, stats,
                   threshold_sigma, anomaly_positions, anomaly_values, mean_c, cv,
                   quality, raised>>
    /\ UNCHANGED batchVars

\* winered_analysis.py:39, tests.  positions, c_indices = calculate_c_index(...)
CalculateCIndex ==
    /\ pc = "loaded"
    /\ \E w \in Windows, s \in Steps, f \in Fractions :
         LET out == calculate_c_index(flux, w, s, f)
         IN  /\ window' = w
             /\ step' = s
             /\ min_valid_fraction' = f
             /\ positions' = out.positions
             /\ c_indices' = out.c_indices
             /\ raised' = out.raised
             /\ pc' = IF out.raised = "none" THEN "scanned" ELSE "raised"
    /\ UNCHANGED <<flux, stats, threshold_sigma, anomaly_positions, anomaly_values,
                   mean_c, cv, quality>>
    /\ UNCHANGED batchVars

\* tests/test_cindex.py:63, 81-82.  A caller supplies a series of its own.
SupplySeries ==
    /\ pc = "start"
    /\ \E c \in SeriesSet :
         /\ c_indices' = c
         /\ positions' = TestPositions(Len(c))
    /\ pc' = "scanned"
    /\ UNCHANGED <<flux, window, step, min_valid_fraction, stats, threshold_sigma,
                   anomaly_positions, anomaly_values, mean_c, cv, quality, raised>>
    /\ UNCHANGED batchVars

\* winered_analysis.py:42, visualizer.py:67.  stats = c_index_statistics(c_indices)
CIndexStatistics ==
    /\ pc = "scanned"
    /\ LET out == c_index_statistics(c_indices)
       IN  /\ stats' = out.stats
           /\ raised' = out.raised
           /\ pc' = IF out.raised = "none" THEN "summarized" ELSE "raised"
    /\ UNCHANGED <<flux, window, step, min_valid_fraction, positions, c_indices,
                   threshold_sigma, anomaly_positions, anomaly_values, mean_c, cv,
                   quality>>
    /\ UNCHANGED batchVars

\* visualizer.py:68.  detect_anomalies(positions, c_indices), after the
\* statistics, with the default threshold_sigma = 2.0 (cindex.py:143).
DetectAfterStatistics ==
    /\ pc = "summarized"
    /\ LET out == detect_anomalies(positions, c_indices, Rat(2, 1))
       IN  /\ anomaly_positions' = out.anomaly_positions
           /\ anomaly_values' = out.anomaly_values
    /\ threshold_sigma' = Rat(2, 1)
    /\ pc' = "detected"
    /\ UNCHANGED <<flux, window, step, min_valid_fraction, positions, c_indices,
                   stats, mean_c, cv, quality, raised>>
    /\ UNCHANGED batchVars

\* tests/test_cindex.py:84.  detect_anomalies called on a series directly.
DetectAnomalies ==
    /\ pc = "scanned"
    /\ flux = <<>>
    /\ \E sg \in Sigmas :
         LET out == detect_anomalies(positions, c_indices, sg)
         IN  /\ anomaly_positions' = out.anomaly_positions
             /\ anomaly_values' = out.anomaly_values
             /\ threshold_sigma' = sg
    /\ pc' = "detected"
    /\ UNCHANGED <<flux, window, step, min_valid_fraction, positions, c_indices,
                   stats, mean_c, cv, quality, raised>>
    /\ UNCHANGED batchVars

\* winered_analysis.py:44.  coherence_quality_score(stats['mean'], stats['cv'])
ScoreStatistics ==
    /\ pc = "summarized"
    /\ mean_c' = stats.mean
    /\ cv' = stats.cv
    /\ quality' = coherence_quality_score(stats.mean, stats.cv)
    /\ pc' = "scored"
    /\ UNCHANGED <<flux, window, step, min_valid_fraction, positions, c_indices,
                   stats, threshold_sigma, anomaly_positions, anomaly_values, raised>>
    /\ UNCHANGED batchVars

\* tests/test_cindex.py:94-103.  coherence_quality_score called directly.
ScoreDirect ==
    /\ pc = "start"
    /\ \E m \in ScoreMeans, v \in ScoreCvs :
         /\ mean_c' = m
         /\ cv' = v
         /\ quality' = coherence_quality_score(m, v)
    /\ pc' = "scored"
    /\ UNCHANGED <<flux, window, step, min_valid_fraction, positions, c_indices,
                   stats, threshold_sigma, anomaly_positions, anomaly_values, raised>>
    /\ UNCHANGED batchVars

Next ==
    \/ LoadSpectrum
    \/ CalculateCIndex
    \/ SupplySeries
    \/ CIndexStatistics
    \/ DetectAfterStatistics
    \/ DetectAnomalies
    \/ ScoreStatistics
    \/ ScoreDirect

Spec == Init /\ [][Next]_vars

\* ------------------------------------------------------------------ batch
\*
\* analyze_multiple_spectra loads a list of spectra and runs the pipeline
\* on each.  Here several callers run it side by side on the loaded
\* arrays, each call being one step; two callers may work on the same
\* array.

\* The flux arrays of a batch.
BatchFlux ==
    {ConstFlux(MinFinite + 1, 1),
     AltFlux(MinFinite + 2, 1, 2),
     WithBad(AltFlux(MinFinite + 2, 1, 2), 1, 1)}

BatchWindows == {MinFinite}

BatchSteps == {1, 2}

BatchFractions == {Rat(0, 1), Rat(8, 10)}

\* winered_analysis.py:87.  spectra = load_multiple_spectra(...)
LoadMultipleSpectra ==
    /\ spectra = <<>>
    /\ \E f \in BatchFlux, g \in BatchFlux :
         /\ spectra' = <<f, g>>
         /\ given' = <<f, g>>
    /\ UNCHANGED calls
    /\ UNCHANGED singleVars

\* A scan that appends to lists shared between invocations: the result
\* holds what the other callers' scans returned before it.
ScanShared(c) ==
    /\ spectra # <<>>
    /\ calls[c].pc = "idle"
    /\ \E k \in 1..Len(spectra), w \in BatchWindows, s \in BatchSteps,
          f \in BatchFractions, o \in Callers \ {c} :
         LET out == calculate_c_index(spectra[k], w, s, f)
         IN  calls' = [calls EXCEPT ![c] =
                 [@ EXCEPT !.pc = IF out.raised = "none" THEN "scanned" ELSE "raised",
                           !.k = k, !.window = w, !.step = s,
                           !.min_valid_fraction = f,
                           !.positions = calls[o].positions \o out.positions,
                           !.c_indices = calls[o].c_indices \o out.c_indices,
                           !.raised = out.raised]]
    /\ UNCHANGED <<spectra, given>>
    /\ UNCHANGED singleVars

\* The array with its non-finite entries set to 0.
Cleaned(data) ==
    [i \in 1..Len(data) |-> IF IsFinite(data[i]) THEN data[i] ELSE Int2Real(0)]

\* A scan that cleans its input in place (data[~np.isfinite(data)] = 0)
\* before it scans.
ScanInPlace(c) ==
    /\ spectra # <<>>
    /\ calls[c].pc = "idle"
    /\ \E k \in 1..Len(spectra), w \in BatchWindows, s \in BatchSteps,
          f \in BatchFractions :
         LET out == calculate_c_index(Cleaned(spectra[k]), w, s, f)
         IN  /\ calls' = [calls EXCEPT ![c] =
                   [@ EXCEPT !.pc = IF out.raised = "none" THEN "scanned" ELSE "raised",
                             !.k = k, !.window = w, !.step = s,
                             !.min_valid_fraction = f,
                             !.positions = out.positions,
                             !.c_indices = out.c_indices,
                             !.raised = out.raised]]
             /\ spectra' = [spectra EXCEPT ![k] = Cleaned(spectra[k])]
    /\ UNCHANGED given
    /\ UNCHANGED singleVars

\* winered_analysis.py:102.  positions, c_indices = calculate_c_index(
\* spectrum.flux, window, step): the array is read, nothing is written to it
\* (data[i:i+window] is a view, segment[np.isfinite(segment)] a copy).
Scan(c) ==
    /\ spectra # <<>>
    /\ calls[c].pc = "idle"
    /\ \E k \in 1..Len(spectra), w \in BatchWindows, s \in BatchSteps,
          f \in BatchFractions :
         LET out == calculate_c_index(spectra[k], w, s, f)
         IN  calls' = [calls EXCEPT ![c] =
                 [@ EXCEPT !.pc = IF out.raised = "none" THEN "scanned" ELSE "raised",
                           !.k = k, !.window = w, !.step = s,
                           !.min_valid_fraction = f,
                           !.positions = out.positions,
                           !.c_indices = out.c_indices,
                           !.raised = out.raised]]
    /\ UNCHANGED <<spectra, given>>
    /\ UNCHANGED singleVars

\* winered_analysis.py:103.  stats = c_index_statistics(c_indices)
Summarize(c) ==
    /\ calls[c].pc = "scanned"
    /\ LET out == c_index_statistics(calls[c].c_indices)
       IN  calls' = [calls EXCEPT ![c] =
               [@ EXCEPT !.pc = IF out.raised = "none" THEN "summarized" ELSE "raised",
                         !.stats = out.stats,
                         !.raised = out.raised]]
    /\ UNCHANGED <<spectra, given>>
    /\ UNCHANGED singleVars

\* visualizer.py:68.  detect_anomalies(positions, c_indices), with the
\* default threshold_sigma = 2.0.
Detect(c) ==
    /\ calls[c].pc = "summarized"
    /\ LET out == detect_anomalies(calls[c].positions, calls[c].c_indices, Rat(2, 1))
       IN  calls' = [calls EXCEPT ![c] =
               [@ EXCEPT !.pc = "detected",
                         !.anomaly_positions = out.anomaly_positions,
                         !.anomaly_values = out.anomaly_values]]
    /\ UNCHANGED <<spectra, given>>
    /\ UNCHANGED singleVars

\* winered_analysis.py:112.  coherence_quality_score(stats['mean'], stats['cv'])
Score(c) ==
    /\ calls[c].pc = "detected"
    /\ calls' = [calls EXCEPT ![c] =
           [@ EXCEPT !.pc = "scored",
                     !.quality = coherence_quality_score(calls[c].stats.mean,
                                                         calls[c].stats.cv)]]
    /\ UNCHANGED <<spectra, given>>
    /\ UNCHANGED singleVars

\* The caller is done with its spectrum (or an exception ended the
\* analysis) and turns to the next: its locals are gone.
NextSpectrum(c) ==
    /\ calls[c].pc \in {"scored", "raised"}
    /\ calls' = [calls EXCEPT ![c] = NoCall]
    /\ UNCHANGED <<spectra, given>>
    /\ UNCHANGED singleVars

BatchNext ==
    \/ LoadMultipleSpectra
    \/ \E c \in Callers : Scan(c)
    \/ \E c \in Callers : Summarize(c)
    \/ \E c \in Callers : Detect(c)
    \/ \E c \in Callers : Score(c)
    \/ \E c \in Callers : NextSpectrum(c)

Batch == Init /\ [][BatchNext]_vars

\* ------------------------------------------------------------------ claims

\* calculate_c_index has returned (in this or an earlier step of the run).
ScanReturned == flux # <<>> /\ pc \notin {"start", "loaded"} /\ step # 0

AllFinite(data) == \A k \in 1..Len(data) : IsFinite(data[k])

\* The offsets the loop visits, as a set.
Visited == {Offsets(Len(flux), window, step)[k] :
              k \in 1..Len(Offsets(Len(flux), window, step))}

\* Finite entries of data[i : i + window], counted on the indices.
FiniteIn(i) ==
    LET n  == Len(flux)
        lo == IF i < 0 THEN Max(i + n, 0) ELSE Min(i, n)
        hi == IF i + window < 0 THEN Max(i + window + n, 0) ELSE Min(i + window, n)
    IN  Cardinality({k \in (lo + 1)..hi : flux[k].d # 0})

\* count >= window * min_valid_fraction and count >= 10, in integers.
Qualifies(i) ==
    /\ FiniteIn(i) * min_valid_fraction.d >= window * min_valid_fraction.a
    /\ FiniteIn(i) >= MinFinite

\* A sample was emitted for offset i: its midpoint i + window/2 is a position.
Emitted(i) ==
    \E k \in 1..Len(positions) : 2 * positions[k].a = (2 * i + window) * positions[k].d

\* C1: for all-finite data with window >= 10, step >= 1 and
\* length(data) >= window the scan emits floor((length - window)/step) + 1
\* samples (so data exactly one window long yields one sample).
C1_SampleCount ==
    (ScanReturned /\ AllFinite(flux) /\ window >= MinFinite /\ step >= 1
       /\ Len(flux) >= window)
    => Len(c_indices) = (Len(flux) - window) \div step + 1

\* C2 (as stated): for every visited offset a sample is emitted iff the
\* finite count of its window is >= window * min_valid_fraction and >= 10,
\* and any scan with window < 10 returns an empty series.
C2_Original ==
    ScanReturned =>
        /\ \A i \in Visited : Emitted(i) <=> Qualifies(i)
        /\ Len(positions) = Cardinality({i \in Visited : Emitted(i)})
        /\ window < MinFinite => c_indices = <<>>

\* C2 (amended): as C2, with the empty series promised only for
\* 0 <= window < 10 (a negative window makes data[i:i+window] a slice that
\* counts from the end of the array and can hold 10 finite values).
C2_Amended ==
    ScanReturned =>
        /\ \A i \in Visited : Emitted(i) <=> Qualifies(i)
        /\ Len(positions) = Cardinality({i \in Visited : Emitted(i)})
        /\ (0 <= window /\ window < MinFinite) => c_indices = <<>>

\* One scan that emits a sample for one offset and skips another.
C2_Witness ==
    /\ ScanReturned
    /\ window >= MinFinite
    /\ step >= 1
    /\ \E i \in Visited : Emitted(i)
    /\ \E i \in Visited : ~Emitted(i) /\ FiniteIn(i) < MinFinite
    /\ min_valid_fraction.a = 0

\* The accepted offsets in increasing order: the k-th is the one with k - 1
\* accepted offsets below it.
AcceptedOffset(k) ==
    CHOOSE i \in Visited :
        /\ Qualifies(i)
        /\ Cardinality({j \in Visited : Qualifies(j) /\ j < i}) = k - 1

\* C3: after a scan with step >= 1, positions and values have the same
\* length, the k-th position is exactly (k-th accepted offset) + window/2,
\* unrounded, and the positions are strictly increasing.
C3_Positions ==
    (ScanReturned /\ step >= 1) =>
        /\ Len(positions) = Len(c_indices)
        /\ Len(positions) = Cardinality({i \in Visited : Qualifies(i)})
        /\ \A k \in 1..Len(positions) :
              /\ IsFinite(positions[k])
              /\ 2 * positions[k].a = (2 * AcceptedOffset(k) + window) * positions[k].d
        /\ \A k \in 1..(Len(positions) - 1) :
              positions[k].a * positions[k + 1].d < positions[k + 1].a * positions[k].d

\* Two samples of a scan with an odd window: half-integer positions.
C3_Witness ==
    /\ ScanReturned
    /\ step >= 1
    /\ window % 2 = 1
    /\ Len(positions) >= 2

\* C4: every value emitted by the scan is finite and lies in [0, 1]
\* (stated for a regular call: step >= 1, window >= 10).
C4_UnitInterval ==
    (ScanReturned /\ step >= 1 /\ window >= MinFinite) =>
        \A k \in 1..Len(c_indices) :
            /\ IsFinite(c_indices[k])
            /\ 0 <= c_indices[k].a
            /\ c_indices[k].a <= c_indices[k].d

\* All entries of data are the same finite value.
IsConstant(data) ==
    /\ Len(data) > 0
    /\ AllFinite(data)
    /\ \A k \in 1..Len(data) : data[k] = data[1]

StatisticsCalled == stats # NoStats \/ raised = ZeroSizeError

\* C6: c_index_statistics on an empty sequence (here one a caller supplies)
\* returns a record with NaN-valued fields and n_values = 0, and raises
\* nothing.
C6_EmptyStatistics ==
    (StatisticsCalled /\ c_indices = <<>> /\ flux = <<>>) =>
        /\ raised = "none"
        /\ stats.n_values = 0
        /\ IsNaN(stats.mean)

\* C7: the pipeline calculate_c_index -> c_index_statistics ->
\* coherence_quality_score never ends with an exception, whatever the flux
\* (too short for the window, or all non-finite, included).
C7_PipelineTotal ==
    (flux # <<>> /\ window >= MinFinite /\ step >= 1) => raised = "none"

\* v is an entry of the sequence s.
Contains(s, v) == \E k \in 1..Len(s) : s[k] = v

\* C8: detect_anomalies on [0.85, 0.87, 0.60, 0.86, 0.88] with
\* threshold_sigma = 2.0 returns a non-empty result that includes 0.60.
C8_TestAnomaly ==
    (pc = "detected" /\ c_indices = TestAnomalySeries /\ threshold_sigma = Rat(2, 1)) =>
        /\ anomaly_values # <<>>
        /\ Contains(anomaly_values, Literal(60, 100))

\* x < y for finite floats, decided on the integers: both sides are
\* brought over the larger of the two denominators (powers of two).
Less(x, y) ==
    /\ IsFinite(x)
    /\ IsFinite(y)
    /\ x.a * (Max(x.d, y.d) \div x.d) < y.a * (Max(x.d, y.d) \div y.d)

\* Entry k of c_indices is strictly below mean - threshold_sigma * std,
\* with mean and std the floats np.mean and np.std return for the series
\* (no entry is below a NaN threshold).
StrictlyBelow(k) ==
    LET t == FSub(NpMean(c_indices), FMul(threshold_sigma, NpStd(c_indices)))
    IN  Less(c_indices[k], t)

\* The index of the j-th sample strictly below the threshold.
AnomalyIndex(j) ==
    CHOOSE k \in 1..Len(c_indices) :
        /\ StrictlyBelow(k)
        /\ Cardinality({i \in 1..(k - 1) : StrictlyBelow(i)}) = j - 1

RuleHolds(p, q) ==
    /\ Less(Literal(p, 100), mean_c)
    /\ Less(cv, Literal(q, 100))

\* The label of the first rule that holds.
FirstRule ==
    IF RuleHolds(85, 5) THEN "Excellent"
    ELSE IF RuleHolds(80, 10) THEN "Good"
    ELSE IF RuleHolds(70, 15) THEN "Fair"
    ELSE "Poor"

\* coherence_quality_score has returned.
Scored == pc = "scored"

\* C10 (as stated): the label is that of the first matching rule, with
\* strict comparisons, and negative or NaN inputs fall through to Poor.
C10_Original ==
    Scored =>
        /\ quality = FirstRule
        /\ (IsNaN(mean_c) \/ IsNaN(cv)) => quality = "Poor"
        /\ (IsFinite(mean_c) /\ mean_c.a < 0) => quality = "Poor"
        /\ (IsFinite(cv) /\ cv.a < 0) => quality = "Poor"

\* C10 (amended): the label is that of the first matching rule, with strict
\* comparisons; a NaN input or a negative mean falls through to Poor; a
\* negative cv passes every cv test, so the mean alone decides the label.
C10_Amended ==
    Scored =>
        /\ quality = FirstRule
        /\ (IsNaN(mean_c) \/ IsNaN(cv)) => quality = "Poor"
        /\ (IsFinite(mean_c) /\ mean_c.a < 0) => quality = "Poor"
        /\ (IsFinite(cv) /\ cv.a < 0 /\ IsFinite(mean_c)) =>
              quality = (IF Less(Literal(85, 100), mean_c) THEN "Excellent"
                         ELSE IF Less(Literal(80, 100), mean_c) THEN "Good"
                         ELSE IF Less(Literal(70, 100), mean_c) THEN "Fair"
                         ELSE "Poor")

\* mean = 0.85 exactly with cv = 0.03: Good, not Excellent.
C10_Witness ==
    /\ pc = "scored"
    /\ mean_c = Literal(85, 100)
    /\ cv = Literal(3, 100)
    /\ quality = "Good"

\* A summary of the non-empty series in c_indices has been returned.
Summarized == stats # NoStats /\ c_indices # <<>>

\* The largest magnitude among the entries of a finite series.
MaxAbs(c) ==
    CHOOSE v \in {Abs(c[k].a) * (Pow2(2 * Precision) \div c[k].d) : k \in 1..Len(c)} :
        \A k \in 1..Len(c) : Abs(c[k].a) * (Pow2(2 * Precision) \div c[k].d) <= v

\* The rounding error allowed to the mean of n floats: 2 * n * 2^-Precision
\* times the largest magnitude (the bound of recursive summation and one
\* division), as an exact rational.
Tolerance(c) == Rat(2 * Len(c) * (MaxAbs(c) \div Pow2(Precision)), Pow2(2 * Precision))

\* x <= y for finite floats.
AtMost(x, y) == IsFinite(x) /\ IsFinite(y) /\ ~Less(y, x)

\* min and max are entries of the series, the smallest and the largest.
MinMaxOfEntries ==
    /\ \E k \in 1..Len(c_indices) : c_indices[k] = stats.min
    /\ \E k \in 1..Len(c_indices) : c_indices[k] = stats.max
    /\ \A k \in 1..Len(c_indices) :
          AtMost(stats.min, c_indices[k]) /\ AtMost(c_indices[k], stats.max)

\* C11 (as stated): for every non-empty series the record has
\* n_values = length, min <= mean <= max, anomaly_threshold = mean - 2*std,
\* cv = std/mean when mean > 0 and cv = 0 when mean <= 0.
C11_Original ==
    Summarized =>
        /\ stats.n_values = Len(c_indices)
        /\ AtMost(stats.min, stats.mean)
        /\ AtMost(stats.mean, stats.max)
        /\ Eq(stats.anomaly_threshold, FSub(stats.mean, FMul(Int2Real(2), stats.std)))
        /\ Less(Int2Real(0), stats.mean) => Eq(stats.cv, FDiv(stats.std, stats.mean))
        /\ AtMost(stats.mean, Int2Real(0)) => stats.cv = Int2Real(0)

\* C11 (amended): for every non-empty series n_values = length.  If all
\* values are finite, min and max are the smallest and largest entry, the
\* mean lies in [min, max] up to the rounding error of the summation (it
\* can fall outside by a few ulps), anomaly_threshold is the float
\* mean - 2*std, and cv is the float std/mean when mean > 0 and 0 when
\* mean <= 0.  If a value is NaN, mean, std, min, max and anomaly_threshold
\* are NaN and cv is 0.
C11_Amended ==
    Summarized =>
        /\ stats.n_values = Len(c_indices)
        /\ ~HasNaN(c_indices) =>
              /\ MinMaxOfEntries
              /\ AtMost(Sub(stats.min, Tolerance(c_indices)), stats.mean)
              /\ AtMost(stats.mean, Sub(stats.max, FNeg(Tolerance(c_indices))))
              /\ stats.anomaly_threshold = FSub(stats.mean, FMul(Int2Real(2), stats.std))
              /\ Less(Int2Real(0), stats.mean) => stats.cv = FDiv(stats.std, stats.mean)
              /\ AtMost(stats.mean, Int2Real(0)) => stats.cv = Int2Real(0)
        /\ HasNaN(c_indices) =>
              /\ IsNaN(stats.mean) /\ IsNaN(stats.std)
              /\ IsNaN(stats.min) /\ IsNaN(stats.max)
              /\ IsNaN(stats.anomaly_threshold)
              /\ stats.cv = Int2Real(0)

\* A summary whose mean, rounded, lies above the largest value, and one
\* has a positive cv.
C11_Witness ==
    /\ Summarized
    /\ ~HasNaN(c_indices)
    /\ Less(stats.max, stats.mean)
    /\ Less(Int2Real(0), stats.cv)

\* calculate_c_index has been called on the loaded flux (and has returned
\* or raised).
ScanCalled == flux # <<>> /\ pc \notin {"start", "loaded"}

\* C12: calculate_c_index raises no error, whatever data, window, step
\* and min_valid_fraction are (step = 0, step < 0, window = 0 and
\* window > length(data) included).
C12_NoError == ScanCalled => raised # RangeStepError

\* C13: if length(data) < window, calculate_c_index visits no offset and
\* returns an empty position sequence and an empty value sequence, without
\* raising.
C13_ShortData ==
    (ScanCalled /\ Len(flux) < window) =>
        /\ raised # RangeStepError
        /\ step # 0 => Visited = {}
        /\ positions = <<>>
        /\ c_indices = <<>>

\* No entry of data is finite.
AllNonFinite(data) == \A k \in 1..Len(data) : ~IsFinite(data[k])

\* C14: if every entry of data is NaN or infinite, the scan returns an
\* empty series, for every window, step >= 1 and min_valid_fraction.
C14_AllNonFinite ==
    (ScanReturned /\ step >= 1 /\ AllNonFinite(flux)) =>
        /\ positions = <<>>
        /\ c_indices = <<>>

\* A scan of all-missing data that visits windows of 10 entries or more
\* with min_valid_fraction = 0: the fraction check passes (0 < 0 is false)
\* and the 10-sample floor skips them.
C14_Witness ==
    /\ ScanReturned
    /\ step >= 1
    /\ AllNonFinite(flux)
    /\ window >= MinFinite
    /\ Visited # {}
    /\ min_valid_fraction.a = 0
    /\ c_indices = <<>>

\* The caller's positions and c_indices are the result of a scan.
HasScan(c) == calls[c].k # 0 /\ calls[c].raised # RangeStepError

\* The two callers' scans had identical data and parameters.
SameCall(a, b) ==
    /\ given[calls[a].k] = given[calls[b].k]
    /\ calls[a].window = calls[b].window
    /\ calls[a].step = calls[b].step
    /\ calls[a].min_valid_fraction = calls[b].min_valid_fraction

Past(c, stages) == calls[c].k # 0 /\ calls[c].pc \in stages

\* What the caller's calls return when they are made alone, on the arrays
\* as the loader handed them over.
Alone(c) ==
    LET scan == calculate_c_index(given[calls[c].k], calls[c].window, calls[c].step,
                                  calls[c].min_valid_fraction)
        summ == c_index_statistics(scan.c_indices)
        det  == detect_anomalies(scan.positions, scan.c_indices, Rat(2, 1))
    IN  [positions |-> scan.positions, c_indices |-> scan.c_indices,
         stats |-> summ.stats, raised |-> summ.raised,
         anomaly_positions |-> det.anomaly_positions,
         anomaly_values |-> det.anomaly_values,
         quality |-> coherence_quality_score(summ.stats.mean, summ.stats.cv)]

DetectedAfterSummary ==
    pc = "detected" /\ stats # NoStats /\ c_indices # <<>> /\ threshold_sigma = Rat(2, 1)

\* Entry k of c_indices is strictly below the anomaly_threshold of the summary.
BelowStats(k) == Less(c_indices[k], stats.anomaly_threshold)

\* The index of the j-th sample below the anomaly_threshold of the summary.
StatsIndex(j) ==
    CHOOSE k \in 1..Len(c_indices) :
        /\ BelowStats(k)
        /\ Cardinality({i \in 1..(k - 1) : BelowStats(i)}) = j - 1

\* C17: for every non-empty series, detect_anomalies with
\* threshold_sigma = 2.0 returns exactly the samples strictly below the
\* anomaly_threshold that c_index_statistics computes for the same values.
C17_SameThreshold ==
    DetectedAfterSummary =>
        /\ Len(anomaly_values) = Cardinality({k \in 1..Len(c_indices) : BelowStats(k)})
        /\ Len(anomaly_positions) = Len(anomaly_values)
        /\ \A j \in 1..Len(anomaly_values) :
              /\ anomaly_values[j] = c_indices[StatsIndex(j)]
              /\ anomaly_positions[j] = positions[StatsIndex(j)]

\* A series with a sample below the anomaly_threshold of its summary.
C17_Witness ==
    /\ DetectedAfterSummary
    /\ anomaly_values # <<>>
    /\ \E k \in 1..Len(c_indices) : BelowStats(k)

\* detect_anomalies has returned for a non-empty series.
Detected == pc = "detected" /\ c_indices # <<>>

\* All samples of the series are the same finite value.
AllEqual(c) == ~HasNaN(c) /\ \A k \in 1..Len(c) : c[k] = c[1]

\* The maximum sample is not flagged, the result is a proper subsequence,
\* and a series of equal values yields nothing.
MaxNotFlagged ==
    /\ \A j \in 1..Len(anomaly_values) : Less(anomaly_values[j], NpMax(c_indices))
    /\ Len(anomaly_values) < Len(c_indices)
    /\ AllEqual(c_indices) => anomaly_values = <<>>

\* C18 (as stated): for every non-empty series and threshold_sigma >= 0 no
\* returned sample is >= the series mean; the maximum sample is never
\* flagged, the result is a proper subsequence of the input, and a series
\* of equal values yields an empty result.
C18_Original ==
    (Detected /\ threshold_sigma.a >= 0) =>
        /\ \A j \in 1..Len(anomaly_values) : Less(anomaly_values[j], NpMean(c_indices))
        /\ MaxNotFlagged

\* C18 (amended): for every non-empty series and threshold_sigma >= 0 no
\* returned sample is >= the mean np.mean returns for the series (none is
\* returned when a sample is NaN); the maximum is not flagged, the result
\* is a proper subsequence and a series of equal values yields nothing
\* whenever that mean does not exceed the maximum (rounding can put the mean
\* of equal values above them, and then all of them can be returned).
C18_Amended ==
    (Detected /\ threshold_sigma.a >= 0) =>
        /\ \A j \in 1..Len(anomaly_values) : Less(anomaly_values[j], NpMean(c_indices))
        /\ HasNaN(c_indices) => anomaly_values = <<>>
        /\ (~HasNaN(c_indices) /\ AtMost(NpMean(c_indices), NpMax(c_indices)))
              => MaxNotFlagged

\* A series of equal values whose mean is rounded above them, returned
\* whole with threshold_sigma = 0.
C18_Witness ==
    /\ Detected
    /\ threshold_sigma = Rat(0, 1)
    /\ AllEqual(c_indices)
    /\ Less(NpMax(c_indices), NpMean(c_indices))
    /\ anomaly_values = c_indices

\* Poor < Fair < Good < Excellent
Rank(label) ==
    IF label = "Excellent" THEN 3
    ELSE IF label = "Good" THEN 2
    ELSE IF label = "Fair" THEN 1
    ELSE 0

\* C19: coherence_quality_score is monotone: for non-NaN arguments, a pair
\* with mean at least mean_c and cv at most cv never gets a lower label;
\* the conditions are nested, and the label is the best one whose
\* condition holds.
C19_Monotone ==
    (Scored /\ IsFinite(mean_c) /\ IsFinite(cv)) =>
        /\ \A m \in ScoreMeans, v \in ScoreCvs :
              (AtMost(mean_c, m) /\ AtMost(v, cv)) =>
                  Rank(coherence_quality_score(m, v)) >= Rank(quality)
        /\ RuleHolds(85, 5) => RuleHolds(80, 10)
        /\ RuleHolds(80, 10) => RuleHolds(70, 15)
        /\ Rank(quality) >= 1 <=> RuleHolds(70, 15)
        /\ Rank(quality) >= 2 <=> RuleHolds(80, 10)
        /\ Rank(quality) >= 3 <=> RuleHolds(85, 5)

\* A pair labelled Good that a better cv does not lower and a better mean
\* with a better cv raises to Excellent.
C19_Witness ==
    /\ Scored
    /\ mean_c = Literal(81, 100)
    /\ cv = Literal(7, 100)
    /\ quality = "Good"
    /\ coherence_quality_score(Literal(81, 100), Literal(3, 100)) = "Good"
    /\ coherence_quality_score(Literal(86, 100), Literal(3, 100)) = "Excellent"

====
